---- MODULE Spec2Model ----
(***************************************************************************)
(* Model of src/main.py: the two FastAPI handlers crear_excel (JSON sheet  *)
(* descriptors -> workbook) and excel_a_json (uploaded workbook -> JSON),  *)
(* together with the part of openpyxl's worksheet interface they use.      *)
(*                                                                         *)
(* Scalars (cell values, titles, labels) are string tokens; None is the    *)
(* token "None", which no str value of the model equals.  A Python dict    *)
(* whose key order is observable (column_widths) is a sequence of          *)
(* <<key, value>> pairs with distinct keys; a row record is a function     *)
(* from its keys to its values.                                            *)
(***************************************************************************)
EXTENDS Integers, Sequences, FiniteSets, TLC

(* ---------------------------- bounds ----------------------------------- *)
MaxSheets == 2
MaxCols == 2
MaxRows == 2
MaxRequests == 2

(* --------------------------- alphabets --------------------------------- *)
None == "None"
Labels == {"P", "C"}
Widths == {15, 20}
Titles == {"", "T", "=T"}
Formulas == {"=T", "=P"}
Values == {"x", "", None}
SheetNames == {"A", "B", "C"}

(* ------------------------ Python helpers ------------------------------- *)
Max(S) == CHOOSE m \in S : \A x \in S : x <= m

Keys(d) == [i \in 1..Len(d) |-> d[i][1]]

KeySet(d) == {d[i][1] : i \in 1..Len(d)}

HasKey(d, k) == k \in KeySet(d)

Lookup(d, k) == d[CHOOSE i \in 1..Len(d) : d[i][1] = k][2]

\* d[k] = v on a dict: an existing key keeps its position, a new key is appended
DictSet(d, k, v) ==
  IF HasKey(d, k)
    THEN [i \in 1..Len(d) |-> IF d[i][1] = k THEN <<k, v>> ELSE d[i]]
    ELSE Append(d, <<k, v>>)

\* row_data.get(header): the default is left out
DictGet_no_default(row_data, header, default) ==
  IF header \in DOMAIN row_data THEN row_data[header] ELSE None

\* row_data.get(header, default)
DictGet(row_data, header, default) ==
  IF header \in DOMAIN row_data THEN row_data[header] ELSE default

\* str.endswith(suffix) on strings given as sequences of characters
EndsWith(s, suffix) ==
  /\ Len(s) >= Len(suffix)
  /\ SubSeq(s, Len(s) - Len(suffix) + 1, Len(s)) = suffix

\* str.endswith((s1, s2, ...))
EndsWithAny(s, suffixes) == \E suffix \in suffixes : EndsWith(s, suffix)

(* ----------------------- exceptions and results ------------------------ *)
Return(v) == [raised |-> FALSE, value |-> v, exc |-> "", status_code |-> 0]

Raise(exc, status_code) ==
  [raised |-> TRUE, value |-> <<>>, exc |-> exc, status_code |-> status_code]

HTTPException(status_code) == Raise("HTTPException", status_code)

(* ------------------- openpyxl: workbook and worksheet ------------------ *)
ColLetters == <<"A", "B", "C", "D", "E", "F">>

\* the letter of a 0-based index
get_column_letter_zero_based(idx) == ColLetters[idx + 1]

\* get_column_letter(idx): columns count from 1
get_column_letter(idx) == ColLetters[idx]

NoFilter == [start |-> <<"", 0>>, end |-> <<"", 0>>]

\* a worksheet as Workbook.create_sheet makes it: no cells, no widths
NewSheet(title) ==
  [title |-> title,
   cells |-> [p \in {} |-> None],
   merged |-> {},
   width |-> [l \in {} |-> 0],
   auto_filter |-> NoFilter]

\* Workbook(): one sheet named "Sheet", which is wb.active
Workbook == << NewSheet("Sheet") >>

sheetnames(wb) == {wb[i].title : i \in 1..Len(wb)}

\* openpyxl renames a title that is already taken by appending a counter
avoid_duplicate_name(names, value) ==
  IF value \in names THEN value \o "1" ELSE value

\* ws.title = value on sheet i of wb
set_title(wb, i, value) ==
  IF wb[i].title = value
    THEN wb
    ELSE [wb EXCEPT ![i].title = avoid_duplicate_name(sheetnames(wb), value)]

\* wb.create_sheet(title=...): appended after the existing sheets
create_sheet(wb, title) ==
  Append(wb, NewSheet(avoid_duplicate_name(sheetnames(wb), title)))

\* ws.cell(row, column).value
cell_value(ws, row, column) ==
  IF <<row, column>> \in DOMAIN ws.cells THEN ws.cells[<<row, column>>] ELSE None

\* ws.cell(row, column).value = value
set_cell(ws, row, column, value) ==
  [ws EXCEPT !.cells = (<<row, column>> :> value) @@ @]

\* ws.merge_cells(start_row, start_column, end_row, end_column): the range
\* bounds are validated (columns and rows are >= 1, min <= max); the cells
\* of the range other than its top-left one become empty merged cells
merge_cells(ws, start_row, start_column, end_row, end_column) ==
  IF end_column < 1 \/ end_row < 1 \/ end_column < start_column \/ end_row < start_row
    THEN Raise("ValueError", 0)
    ELSE Return(
      [ws EXCEPT
        !.merged = @ \cup {<<start_row, start_column, end_row, end_column>>},
        !.cells = [p \in (DOMAIN @) \cup
                         ((start_row..end_row) \X (start_column..end_column)) |->
                     IF p \in DOMAIN @ /\ ~(/\ p[1] \in start_row..end_row
                                            /\ p[2] \in start_column..end_column
                                            /\ p # <<start_row, start_column>>)
                       THEN @[p] ELSE None]])

\* ws.max_row: the largest row that has a cell, 1 on an empty sheet
max_row(ws) ==
  IF DOMAIN ws.cells = {} THEN 1 ELSE Max({p[1] : p \in DOMAIN ws.cells})

\* ws.column_dimensions[letter].width = w
set_width(ws, letter, w) == [ws EXCEPT !.width = (letter :> w) @@ @]

\* ws.column_dimensions[letter].width; 0 stands for "no width" (falsy)
get_width(ws, letter) ==
  IF letter \in DOMAIN ws.width THEN ws.width[letter] ELSE 0

\* what a cell value is after wb.save and load_workbook(data_only=True):
\* an empty string is written as an empty cell and read back as None; a
\* string that starts with "=" is written as a formula without a cached
\* value, which data_only reads back as None
stored_value(v) == IF v = "" \/ v \in Formulas THEN None ELSE v

\* wb.save(buffer): the bytes of the workbook
save(wb) ==
  [parseable |-> TRUE,
   sheets |-> [i \in 1..Len(wb) |->
                 [wb[i] EXCEPT !.cells = [p \in DOMAIN @ |-> stored_value(@[p])]]]]

\* load_workbook(BytesIO(contents), data_only=True)
load_workbook(contents) ==
  IF contents.parseable THEN Return(contents.sheets) ELSE Raise("InvalidFileException", 0)

(* ------------------------- HTTP responses ------------------------------ *)
NoFile == [parseable |-> FALSE, sheets |-> <<>>]

\* 'attachment; filename=archivo_multisheets.xlsx'
DownloadName ==
  <<"a","r","c","h","i","v","o","_","m","u","l","t","i","s","h","e","e","t","s",
    ".","x","l","s","x">>

StreamingResponse(buffer) ==
  [status_code |-> 200, media_type |-> "spreadsheetml.sheet",
   filename |-> DownloadName, content |-> buffer, json |-> <<>>]

JSONResponse(content) ==
  [status_code |-> 200, media_type |-> "json",
   filename |-> <<>>, content |-> NoFile, json |-> content]

\* the response FastAPI makes of an HTTPException raised by a handler
ErrorResponse(status_code) ==
  [status_code |-> status_code, media_type |-> "error",
   filename |-> <<>>, content |-> NoFile, json |-> <<>>]

NoResponse == ErrorResponse(0)

(* ----------------------------- crear_excel ----------------------------- *)
\* lines 53-58: merge row 1 over the columns, then write the title into (1,1)
write_title(ws, sheet) ==
  LET m == merge_cells(ws, 1, 1, 1, Len(sheet.column_widths))
  IN IF m.raised THEN m ELSE Return(set_cell(m.value, 1, 1, sheet.title))

\* lines 62-68: for col_num, header in enumerate(headers, 1)
RECURSIVE write_headers(_, _, _, _)
write_headers(ws, headers, column_widths, col_num) ==
  IF col_num > Len(headers)
    THEN ws
    ELSE LET header == headers[col_num]
             ws1 == set_cell(ws, 2, col_num, header)
             ws2 == set_width(ws1, get_column_letter(col_num), Lookup(column_widths, header))
         IN write_headers(ws2, headers, column_widths, col_num + 1)

\* lines 72-77: for col_num, header in enumerate(headers, 1)
RECURSIVE write_row(_, _, _, _, _)
write_row(ws, headers, row_data, row_num, col_num) ==
  IF col_num > Len(headers)
    THEN ws
    ELSE LET value == DictGet(row_data, headers[col_num], "")
         IN write_row(set_cell(ws, row_num, col_num, value),
                      headers, row_data, row_num, col_num + 1)

\* line 71: for row_num, row_data in enumerate(sheet.data, start=3)
RECURSIVE write_data(_, _, _, _)
write_data(ws, headers, data, row_num) ==
  IF row_num - 2 > Len(data)
    THEN ws
    ELSE write_data(write_row(ws, headers, data[row_num - 2], row_num, 1),
                    headers, data, row_num + 1)

\* lines 81-85: ws.auto_filter.ref = "A2:<last column letter><last row>"
set_auto_filter(ws, headers) ==
  LET last_row == max_row(ws)
      last_col == Len(headers)
  IN [ws EXCEPT !.auto_filter =
        [start |-> <<"A", 2>>, end |-> <<get_column_letter(last_col), last_row>>]]

\* lines 53-85 on the worksheet ws
fill_sheet(ws, sheet) ==
  LET t == write_title(ws, sheet)
  IN IF t.raised
       THEN t
       ELSE LET headers == Keys(sheet.column_widths)
                ws1 == write_headers(t.value, headers, sheet.column_widths, 1)
                ws2 == write_data(ws1, headers, sheet.data, 3)
            IN Return(set_auto_filter(ws2, headers))

\* the first descriptor gets a new sheet too, after the initial one
select_sheet_always_new(wb, idx, sheet) ==
  [wb |-> create_sheet(wb, sheet.hoja), pos |-> Len(wb) + 1]

\* lines 46-51: the first descriptor takes wb.active, the others a new
\* sheet; pos is where ws is in the workbook
select_sheet(wb, idx, sheet) ==
  IF idx = 0
    THEN [wb |-> set_title(wb, 1, sheet.hoja), pos |-> 1]
    ELSE [wb |-> create_sheet(wb, sheet.hoja), pos |-> Len(wb) + 1]

\* lines 45-85: for idx, sheet in enumerate(request.hojas)
RECURSIVE write_sheets(_, _, _)
write_sheets(wb, hojas, idx) ==
  IF idx >= Len(hojas)
    THEN Return(wb)
    ELSE LET s == select_sheet(wb, idx, hojas[idx + 1])
             f == fill_sheet(s.wb[s.pos], hojas[idx + 1])
         IN IF f.raised
              THEN f
              ELSE write_sheets([s.wb EXCEPT ![s.pos] = f.value], hojas, idx + 1)

\* lines 38-104: the body of the try block
crear_excel_try(hojas) ==
  IF hojas = <<>>
    THEN HTTPException(400)
    ELSE LET w == write_sheets(Workbook, hojas, 0)
         IN IF w.raised
              THEN w
              ELSE Return([wb |-> w.value, response |-> StreamingResponse(save(w.value))])

\* lines 106-107: except Exception catches whatever the body raised,
\* an HTTPException included, and raises HTTPException(500)
crear_excel_except(body) ==
  IF body.raised THEN HTTPException(500) ELSE body

\* the handler: what the client gets, and the workbook the handler built
crear_excel(hojas) ==
  LET r == crear_excel_except(crear_excel_try(hojas))
  IN IF r.raised
       THEN [wb |-> <<>>, response |-> ErrorResponse(r.status_code)]
       ELSE r.value

(* ----------------------------- excel_a_json ---------------------------- *)
\* a scan of the whole of row 2 that skips the empty cells
RECURSIVE read_headers_skip_gaps(_, _, _)
read_headers_skip_gaps(ws, headers, col) ==
  LET value == cell_value(ws, 2, col)
  IN IF col > Max({p[2] : p \in DOMAIN ws.cells} \cup {0})
       THEN headers
       ELSE read_headers_skip_gaps(
              ws, IF value = None THEN headers ELSE Append(headers, value), col + 1)

\* lines 141-149: scan row 2 from column col until the first None
RECURSIVE read_headers(_, _, _)
read_headers(ws, headers, col) ==
  LET value == cell_value(ws, 2, col)
  IN IF value = None
       THEN headers
       ELSE read_headers(ws, Append(headers, value), col + 1)

\* line 159: col_width if col_width else 10.0
DefaultWidth == 10

\* the test inverted: 10.0 for every width that is set
width_or_default_inverted(col_width) == IF col_width # 0 THEN DefaultWidth ELSE col_width

width_or_default(col_width) == IF col_width # 0 THEN col_width ELSE DefaultWidth

\* lines 153-159: for idx, header in enumerate(headers, start=1)
RECURSIVE read_column_widths(_, _, _, _)
read_column_widths(ws, headers, column_widths, idx) ==
  IF idx > Len(headers)
    THEN column_widths
    ELSE LET col_width == get_width(ws, get_column_letter(idx))
         IN read_column_widths(ws, headers,
              DictSet(column_widths, headers[idx], width_or_default(col_width)),
              idx + 1)

\* lines 174-177: for col_idx, header in enumerate(headers, start=1)
RECURSIVE read_row(_, _, _, _, _)
read_row(ws, headers, row_num, row_dict, col_idx) ==
  IF col_idx > Len(headers)
    THEN row_dict
    ELSE read_row(ws, headers, row_num,
                  (headers[col_idx] :> cell_value(ws, row_num, col_idx)) @@ row_dict,
                  col_idx + 1)

\* a scan of every row of the sheet that skips those with column 1 empty
RECURSIVE read_data_skip_gaps(_, _, _, _)
read_data_skip_gaps(ws, headers, data, row_num) ==
  IF row_num > max_row(ws)
    THEN data
    ELSE read_data_skip_gaps(ws, headers,
           IF cell_value(ws, row_num, 1) = None
             THEN data
             ELSE Append(data, read_row(ws, headers, row_num, <<>>, 1)),
           row_num + 1)

\* lines 162-179: scan the rows from row_num until column 1 is None
RECURSIVE read_data(_, _, _, _)
read_data(ws, headers, data, row_num) ==
  IF cell_value(ws, row_num, 1) = None
    THEN data
    ELSE read_data(ws, headers,
                   Append(data, read_row(ws, headers, row_num, <<>>, 1)),
                   row_num + 1)

\* line 138: title_cell if title_cell else ""
title_or_empty(title_cell) == IF title_cell \in {None, ""} THEN "" ELSE title_cell

\* lines 132-187: the sheet_info of one worksheet
sheet_info(ws) ==
  LET headers == read_headers(ws, <<>>, 1)
  IN [hoja |-> ws.title,
      title |-> title_or_empty(cell_value(ws, 1, 1)),
      column_widths |-> read_column_widths(ws, headers, <<>>, 1),
      data |-> read_data(ws, headers, <<>>, 3)]

\* lines 129-189: for ws in wb.worksheets: hojas_data.append(sheet_info)
RECURSIVE read_sheets(_, _, _)
read_sheets(wb, hojas_data, i) ==
  IF i > Len(wb)
    THEN hojas_data
    ELSE read_sheets(wb, Append(hojas_data, sheet_info(wb[i])), i + 1)

XLSX == <<".", "x", "l", "s", "x">>
XLSM == <<".", "x", "l", "s", "m">>

\* lines 118-196: the body of the try block; read tells whether file.read()
\* was reached
excel_a_json_try(file) ==
  IF ~EndsWithAny(file.filename, {XLSX, XLSM})
    THEN [read |-> FALSE, result |-> HTTPException(400)]
    ELSE LET wb == load_workbook(file.contents)
         IN [read |-> TRUE,
             result |-> IF wb.raised
                          THEN wb
                          ELSE Return(JSONResponse(read_sheets(wb.value, <<>>, 1)))]

\* lines 198-199: except Exception catches whatever the body raised,
\* an HTTPException included, and raises HTTPException(500)
excel_a_json_except(body) ==
  IF body.raised THEN HTTPException(500) ELSE body

\* the handler: what the client gets, and whether the upload was read
excel_a_json(file) ==
  LET t == excel_a_json_try(file)
      r == excel_a_json_except(t.result)
  IN [read |-> t.read,
      response |-> IF r.raised THEN ErrorResponse(r.status_code) ELSE r.value]

(* ------------------------------ inputs --------------------------------- *)
SeqsUpTo(S, n) == UNION {[1..k -> S] : k \in 0..n}

\* a JSON object has each key once: column_widths with distinct labels
ColumnWidths ==
  {d \in SeqsUpTo(Labels \X Widths, MaxCols) :
     \A i, j \in 1..Len(d) : d[i][1] = d[j][1] => i = j}

Records == UNION {[K -> Values] : K \in SUBSET Labels}

\* one sheet, every shape of columns and records
RichSheets ==
  [hoja : {"A"}, title : {"T"}, column_widths : ColumnWidths,
   data : SeqsUpTo(Records, MaxRows)]

\* one sheet whose title or labels are the empty string or a formula
OddColumnWidths ==
  {d \in SeqsUpTo({"P", "", "=P"} \X {15}, MaxCols) :
     \A i, j \in 1..Len(d) : d[i][1] = d[j][1] => i = j}

OddSheets ==
  {[hoja |-> "A", title |-> t, column_widths |-> d,
    data |-> << [k \in KeySet(d) |-> "x"] >>] :
     t \in Titles, d \in OddColumnWidths}

\* several sheets, few shapes each
PlainSheets ==
  [hoja : SheetNames, title : {"T"},
   column_widths : {<<>>, << <<"P", 15>> >>},
   data : {<<>>, << ("P" :> "x") >>}]

Requests ==
  {<<s>> : s \in RichSheets \cup OddSheets} \cup SeqsUpTo(PlainSheets, MaxSheets)

\* workbooks made by hand: row 2 has MaxCols + 1 cells, each a label or
\* empty; rows 3 .. 3 + MaxRows have a cell, filled or empty, in each of the
\* first columns
CellTokens == <<"x", "y", "z", "w">>

HeaderRows == [1..(MaxCols + 1) -> Labels \cup {None}]

DataGrids == [(3..(3 + MaxRows)) \X (1..Cardinality(Labels)) -> BOOLEAN]

GridSheet(title, header, grid) ==
  [title |-> "A",
   cells |-> [p \in ({<<1, 1>>} \cup ({2} \X DOMAIN header) \cup DOMAIN grid) |->
                IF p[1] = 1 THEN title
                ELSE IF p[1] = 2 THEN header[p[2]]
                ELSE IF grid[p] THEN CellTokens[p[2]] ELSE None],
   merged |-> {},
   width |-> ("A" :> 20),
   auto_filter |-> NoFilter]

GridFiles ==
  {[parseable |-> TRUE, sheets |-> << GridSheet(t, h, g) >>] :
     t \in {None, "T"}, h \in HeaderRows, g \in DataGrids}

Filenames ==
  { <<"a">> \o XLSX, <<"a">> \o XLSM, <<"a", ".", "c", "s", "v">>,
    <<"a", ".", "X", "L", "S", "X">>, <<"x", "l", "s", "x">>,
    XLSX \o <<".", "t", "x", "t">> }

SampleFile ==
  [parseable |-> TRUE,
   sheets |-> << GridSheet("T", [i \in 1..(MaxCols + 1) |-> IF i = 1 THEN "P" ELSE None],
                           [p \in (3..(3 + MaxRows)) \X (1..Cardinality(Labels)) |-> TRUE]) >>]

Uploads ==
  {[filename |-> <<"a">> \o XLSX, contents |-> f] : f \in GridFiles}
    \cup {[filename |-> n, contents |-> f] : n \in Filenames, f \in {SampleFile, NoFile}}

NoUpload == [filename |-> <<>>, contents |-> NoFile]

NoRequest == [op |-> "none", hojas |-> <<>>, file |-> NoUpload]

NoDownload == [have |-> FALSE, hojas |-> <<>>, file |-> NoUpload]

(* ------------------------------- state --------------------------------- *)
VARIABLES
  request,    \* the request the client sent last
  response,   \* the response it got
  wb,         \* the workbook crear_excel built for it
  file_read,  \* whether excel_a_json read the upload
  download    \* the workbook file the client holds, and what it was made from

\* requests in flight at once, each with the frame of its handler call
VARIABLES
  input,      \* input[r]: what request r carries
  frame,      \* frame[r]: the locals of r's handler call and where it stands
  heap,       \* the objects the calls allocated, by reference
  resp        \* resp[r]: the response to r, once there is one

clientvars == <<request, response, wb, file_read, download>>

concvars == <<input, frame, heap, resp>>

vars == <<request, response, wb, file_read, download, input, frame, heap, resp>>

NoConcurrency ==
  /\ input = <<>>
  /\ frame = <<>>
  /\ heap = <<>>
  /\ resp = <<>>

NoClient ==
  /\ request = NoRequest
  /\ response = NoResponse
  /\ wb = <<>>
  /\ file_read = FALSE
  /\ download = NoDownload

Init == NoClient /\ NoConcurrency

\* POST /crear-excel
PostCrearExcel ==
  /\ request.op = "none"
  /\ \E hojas \in Requests :
       LET r == crear_excel(hojas)
       IN /\ request' = [op |-> "crear_excel", hojas |-> hojas, file |-> NoUpload]
          /\ response' = r.response
          /\ wb' = r.wb
          /\ download' =
               IF r.response.status_code = 200
                 THEN [have |-> TRUE, hojas |-> hojas,
                       file |-> [filename |-> r.response.filename,
                                 contents |-> r.response.content]]
                 ELSE NoDownload
  /\ file_read' = FALSE
  /\ UNCHANGED concvars

\* POST /excel-a-json: the client uploads the workbook it downloaded, or,
\* holding none, one made by hand
PostExcelAJson ==
  /\ \/ request.op = "none"
     \/ request.op = "crear_excel" /\ download.have
  /\ \E file \in (IF download.have THEN {download.file} ELSE Uploads) :
       LET r == excel_a_json(file)
       IN /\ request' = [op |-> "excel_a_json", hojas |-> <<>>, file |-> file]
          /\ response' = r.response
          /\ file_read' = r.read
  /\ wb' = <<>>
  /\ UNCHANGED download
  /\ UNCHANGED concvars

\* the client is done with the response and drops what it holds
Done ==
  /\ request.op # "none"
  /\ request' = NoRequest
  /\ response' = NoResponse
  /\ wb' = <<>>
  /\ file_read' = FALSE
  /\ download' = NoDownload
  /\ UNCHANGED concvars

Next == PostCrearExcel \/ PostExcelAJson \/ Done

Spec == Init /\ [][Next]_vars

(* ----------------------- requests in flight at once -------------------- *)
Reqs == 1..MaxRequests

SheetA ==
  [hoja |-> "A", title |-> "T", column_widths |-> << <<"P", 15>> >>,
   data |-> << ("P" :> "x") >>]

SheetB ==
  [hoja |-> "B", title |-> "", column_widths |-> << <<"C", 20>>, <<"P", 15>> >>,
   data |-> <<>>]

SheetNoColumns == [hoja |-> "C", title |-> "T", column_widths |-> <<>>, data |-> <<>>]

EncodeInput(hojas) == [op |-> "crear_excel", hojas |-> hojas, file |-> NoUpload]

DecodeInput(filename, contents) ==
  [op |-> "excel_a_json", hojas |-> <<>>,
   file |-> [filename |-> filename, contents |-> contents]]

ConcInputs ==
  { EncodeInput(<<>>),
    EncodeInput(<<SheetA>>),
    EncodeInput(<<SheetB, SheetA>>),
    EncodeInput(<<SheetA, SheetNoColumns>>),
    DecodeInput(<<"a", ".", "c", "s", "v">>, SampleFile),
    DecodeInput(<<"a">> \o XLSX, NoFile),
    DecodeInput(<<"a">> \o XLSM, SampleFile),
    DecodeInput(DownloadName, crear_excel(<<SheetB, SheetA>>).response.content) }

\* the object the module would hold once for all calls
new_object_shared(r, name) == <<0, name>>

\* lines 39, 92, 129: Workbook(), BytesIO() and [] make a new object at
\* every call; its reference is the call's own
new_object(r, name) == <<r, name>>

ObjIds == (Reqs \cup {0}) \X {"wb", "hojas_data"}

NoFrame == [pc |-> "start", idx |-> 0, ref |-> <<0, "">>, loaded |-> <<>>]

InitConc ==
  /\ NoClient
  /\ input \in [Reqs -> ConcInputs]
  /\ frame = [r \in Reqs |-> NoFrame]
  /\ heap = [o \in ObjIds |-> <<>>]
  /\ resp = [r \in Reqs |-> NoResponse]

At(r, op, pc) == input[r].op = op /\ frame[r].pc = pc

\* lines 39-43: wb = Workbook(), then the empty-list test
CrearExcelStart(r) ==
  /\ At(r, "crear_excel", "start")
  /\ LET ref == new_object(r, "wb")
     IN /\ heap' = [heap EXCEPT ![ref] = Workbook]
        /\ frame' = [frame EXCEPT ![r] =
             [@ EXCEPT !.ref = ref,
                       !.pc = IF input[r].hojas = <<>> THEN "except" ELSE "loop"]]
  /\ UNCHANGED <<input, resp>>

\* lines 45-85: one turn of the loop over request.hojas, on the call's wb
CrearExcelSheet(r) ==
  /\ At(r, "crear_excel", "loop")
  /\ frame[r].idx < Len(input[r].hojas)
  /\ LET sheet == input[r].hojas[frame[r].idx + 1]
         s == select_sheet(heap[frame[r].ref], frame[r].idx, sheet)
         f == fill_sheet(s.wb[s.pos], sheet)
     IN IF f.raised
          THEN /\ heap' = [heap EXCEPT ![frame[r].ref] = s.wb]
               /\ frame' = [frame EXCEPT ![r].pc = "except"]
          ELSE /\ heap' = [heap EXCEPT ![frame[r].ref] = [s.wb EXCEPT ![s.pos] = f.value]]
               /\ frame' = [frame EXCEPT ![r].idx = @ + 1]
  /\ UNCHANGED <<input, resp>>

\* lines 91-104: the loop is over; save wb and return the response
CrearExcelSave(r) ==
  /\ At(r, "crear_excel", "loop")
  /\ frame[r].idx >= Len(input[r].hojas)
  /\ resp' = [resp EXCEPT ![r] = StreamingResponse(save(heap[frame[r].ref]))]
  /\ frame' = [frame EXCEPT ![r].pc = "done"]
  /\ UNCHANGED <<input, heap>>

\* lines 106-107
CrearExcelExcept(r) ==
  /\ At(r, "crear_excel", "except")
  /\ resp' = [resp EXCEPT ![r] = ErrorResponse(crear_excel_except(Raise("Exception", 0)).status_code)]
  /\ frame' = [frame EXCEPT ![r].pc = "done"]
  /\ UNCHANGED <<input, heap>>

\* lines 119-123: the extension test, then await file.read()
ExcelAJsonStart(r) ==
  /\ At(r, "excel_a_json", "start")
  /\ frame' = [frame EXCEPT ![r].pc =
       IF EndsWithAny(input[r].file.filename, {XLSX, XLSM}) THEN "read" ELSE "except"]
  /\ UNCHANGED <<input, heap, resp>>

\* lines 123-129: the read returns; load the workbook, hojas_data = []
ExcelAJsonLoad(r) ==
  /\ At(r, "excel_a_json", "read")
  /\ LET loaded == load_workbook(input[r].file.contents)
         ref == new_object(r, "hojas_data")
     IN IF loaded.raised
          THEN /\ frame' = [frame EXCEPT ![r].pc = "except"]
               /\ UNCHANGED heap
          ELSE /\ frame' = [frame EXCEPT ![r] =
                    [pc |-> "loop", idx |-> 1, ref |-> ref, loaded |-> loaded.value]]
               /\ heap' = [heap EXCEPT ![ref] = <<>>]
  /\ UNCHANGED <<input, resp>>

\* lines 131-189: one turn of the loop over wb.worksheets
ExcelAJsonSheet(r) ==
  /\ At(r, "excel_a_json", "loop")
  /\ frame[r].idx <= Len(frame[r].loaded)
  /\ heap' = [heap EXCEPT ![frame[r].ref] =
                Append(@, sheet_info(frame[r].loaded[frame[r].idx]))]
  /\ frame' = [frame EXCEPT ![r].idx = @ + 1]
  /\ UNCHANGED <<input, resp>>

\* lines 192-196: the loop is over; return hojas_data
ExcelAJsonReturn(r) ==
  /\ At(r, "excel_a_json", "loop")
  /\ frame[r].idx > Len(frame[r].loaded)
  /\ resp' = [resp EXCEPT ![r] = JSONResponse(heap[frame[r].ref])]
  /\ frame' = [frame EXCEPT ![r].pc = "done"]
  /\ UNCHANGED <<input, heap>>

\* lines 198-199
ExcelAJsonExcept(r) ==
  /\ At(r, "excel_a_json", "except")
  /\ resp' = [resp EXCEPT ![r] = ErrorResponse(excel_a_json_except(Raise("Exception", 0)).status_code)]
  /\ frame' = [frame EXCEPT ![r].pc = "done"]
  /\ UNCHANGED <<input, heap>>

NextConc ==
  \/ \E r \in Reqs : CrearExcelStart(r) /\ UNCHANGED clientvars
  \/ \E r \in Reqs : CrearExcelSheet(r) /\ UNCHANGED clientvars
  \/ \E r \in Reqs : CrearExcelSave(r) /\ UNCHANGED clientvars
  \/ \E r \in Reqs : CrearExcelExcept(r) /\ UNCHANGED clientvars
  \/ \E r \in Reqs : ExcelAJsonStart(r) /\ UNCHANGED clientvars
  \/ \E r \in Reqs : ExcelAJsonLoad(r) /\ UNCHANGED clientvars
  \/ \E r \in Reqs : ExcelAJsonSheet(r) /\ UNCHANGED clientvars
  \/ \E r \in Reqs : ExcelAJsonReturn(r) /\ UNCHANGED clientvars
  \/ \E r \in Reqs : ExcelAJsonExcept(r) /\ UNCHANGED clientvars

SpecConc == InitConc /\ [][NextConc]_vars

(* ------------------------------ claims --------------------------------- *)
ClientError == 400..499

Encoded == request.op = "crear_excel"

Decoded == request.op = "excel_a_json"

\* C2: crear_excel with an empty list of sheets fails, and the client gets
\* a client-error status (4xx)
C2_EmptyInputIsClientError ==
  (Encoded /\ request.hojas = <<>>) => response.status_code \in ClientError

\* C3: crear_excel with a sheet whose column_widths is empty fails with a
\* client error and returns no workbook
C3_EmptyColumnsIsClientError ==
  (Encoded /\ \E i \in 1..Len(request.hojas) : request.hojas[i].column_widths = <<>>)
    => /\ response.status_code \in ClientError
       /\ response.content = NoFile

\* C4: excel_a_json answers a file named neither *.xlsx nor *.xlsm with a
\* client-error status (4xx), without reading the file
C4_BadExtensionIsClientError ==
  (Decoded /\ ~EndsWithAny(request.file.filename, {XLSX, XLSM}))
    => /\ response.status_code \in ClientError
       /\ ~file_read

(* round trip *)
FormatPreserving(v) == v # None /\ stored_value(v) = v

DistinctNames(hojas) ==
  \A i, j \in 1..Len(hojas) : hojas[i].hoja = hojas[j].hoja => i = j

\* well-formed as C1 states it
WellFormed(hojas) ==
  /\ hojas # <<>>
  /\ DistinctNames(hojas)
  /\ \A i \in 1..Len(hojas) :
       /\ hojas[i].column_widths # <<>>
       /\ \A c \in 1..Len(hojas[i].column_widths) : hojas[i].column_widths[c][2] > 0
       /\ \A r \in 1..Len(hojas[i].data) :
            \A k \in DOMAIN hojas[i].data[r] : FormatPreserving(hojas[i].data[r][k])

\* every record has exactly the sheet's column labels as its keys, and
\* every title and label is read back as it was written
FullRecords(hojas) ==
  \A i \in 1..Len(hojas) :
    /\ title_or_empty(stored_value(hojas[i].title)) = hojas[i].title
    /\ \A c \in 1..Len(hojas[i].column_widths) :
         FormatPreserving(hojas[i].column_widths[c][1])
    /\ \A r \in 1..Len(hojas[i].data) :
         DOMAIN hojas[i].data[r] = KeySet(hojas[i].column_widths)

RoundTripped == Decoded /\ download.have /\ request.file = download.file

UploadedSheets == request.file.contents.sheets

DecodedOk == Decoded /\ response.status_code = 200

ColumnsOf(ws) == {p[2] : p \in DOMAIN ws.cells} \cup {0}

RowsOf(ws) == {p[1] : p \in DOMAIN ws.cells} \cup {2}

\* the smallest column whose row-2 cell is None
FirstNullCol(ws) ==
  CHOOSE k \in 1..(Max(ColumnsOf(ws)) + 1) :
    /\ cell_value(ws, 2, k) = None
    /\ \A c \in 1..(k - 1) : cell_value(ws, 2, c) # None

\* the smallest row >= 3 whose column-1 cell is None
FirstNullRow(ws) ==
  CHOOSE m \in 3..(Max(RowsOf(ws)) + 1) :
    /\ cell_value(ws, m, 1) = None
    /\ \A r \in 3..(m - 1) : cell_value(ws, r, 1) # None

Row2Prefix(ws) == [c \in 1..(FirstNullCol(ws) - 1) |-> cell_value(ws, 2, c)]

\* s without the later occurrences of a value
RECURSIVE FirstOccurrences(_)
FirstOccurrences(s) ==
  IF s = <<>>
    THEN <<>>
    ELSE LET front == SubSeq(s, 1, Len(s) - 1)
             rest == FirstOccurrences(front)
         IN IF \E i \in 1..Len(front) : front[i] = s[Len(s)]
              THEN rest ELSE Append(rest, s[Len(s)])

\* C5 as stated: the decoded column labels of every sheet are the row-2
\* values of columns 1..k-1 in order, k the first column whose row-2 cell
\* is None
C5_LabelsAreRow2PrefixAsStated ==
  DecodedOk =>
    \A i \in 1..Len(UploadedSheets) :
      LET ws == UploadedSheets[i]
          info == response.json[i]
      IN /\ Keys(info.column_widths) = Row2Prefix(ws)
         /\ \A r \in 1..Len(info.data) :
              DOMAIN info.data[r] = {Row2Prefix(ws)[c] : c \in DOMAIN Row2Prefix(ws)}

\* C5 (amended): the decoded column labels of every sheet are the row-2
\* values of columns 1..k-1 in order, a value that occurs more than once
\* being kept at its first position only; nothing beyond k is a label
C5_LabelsAreRow2Prefix ==
  DecodedOk =>
    \A i \in 1..Len(UploadedSheets) :
      LET ws == UploadedSheets[i]
          info == response.json[i]
      IN /\ Keys(info.column_widths) = FirstOccurrences(Row2Prefix(ws))
         /\ \A r \in 1..Len(info.data) :
              DOMAIN info.data[r] = {Row2Prefix(ws)[c] : c \in DOMAIN Row2Prefix(ws)}

\* a label, a gap, then another label: only the first label is decoded
C5_Witness ==
  /\ DecodedOk
  /\ Len(UploadedSheets) = 1
  /\ cell_value(UploadedSheets[1], 2, 1) # None
  /\ cell_value(UploadedSheets[1], 2, 2) = None
  /\ cell_value(UploadedSheets[1], 2, 3) # None
  /\ Len(response.json[1].column_widths) = 1
  /\ response.json[1].data # <<>>

\* C6 as stated: the decoded rows are rows 3..m-1 in order, m the first
\* row >= 3 whose column-1 cell is None, and each record maps the header
\* at position i to the cell at (row, i)
C6_RowsAreColumn1PrefixAsStated ==
  DecodedOk =>
    \A i \in 1..Len(UploadedSheets) :
      LET ws == UploadedSheets[i]
          info == response.json[i]
          h == Row2Prefix(ws)
      IN /\ Len(info.data) = FirstNullRow(ws) - 3
         /\ \A r \in 1..Len(info.data) :
              /\ DOMAIN info.data[r] = {h[c] : c \in DOMAIN h}
              /\ \A c \in DOMAIN h : info.data[r][h[c]] = cell_value(ws, 2 + r, c)

\* C6 (amended): the decoded rows are rows 3..m-1 in order, and each
\* record maps each header to the cell at (row, j), j the last position at
\* which that header stands in row 2 (its only position when the headers
\* are distinct)
C6_RowsAreColumn1Prefix ==
  DecodedOk =>
    \A i \in 1..Len(UploadedSheets) :
      LET ws == UploadedSheets[i]
          info == response.json[i]
          h == Row2Prefix(ws)
      IN /\ Len(info.data) = FirstNullRow(ws) - 3
         /\ \A r \in 1..Len(info.data) :
              /\ DOMAIN info.data[r] = {h[c] : c \in DOMAIN h}
              /\ \A c \in DOMAIN h :
                   (\A later \in DOMAIN h : h[later] = h[c] => later <= c)
                     => info.data[r][h[c]] = cell_value(ws, 2 + r, c)

\* a filled row, a row with column 1 empty, then a filled row: one record
C6_Witness ==
  /\ DecodedOk
  /\ Len(UploadedSheets) = 1
  /\ cell_value(UploadedSheets[1], 3, 1) # None
  /\ cell_value(UploadedSheets[1], 4, 1) = None
  /\ cell_value(UploadedSheets[1], 4, 2) # None
  /\ cell_value(UploadedSheets[1], 5, 1) # None
  /\ Len(response.json[1].data) = 1
  /\ Len(response.json[1].column_widths) = 2

(* encoding: the workbook crear_excel built and sent *)
EncodedOk == Encoded /\ response.status_code = 200

TitlesOf(sheets) == [i \in 1..Len(sheets) |-> sheets[i].title]

C8_EncoderLayout ==
  EncodedOk =>
    /\ Len(wb) = Len(request.hojas)
    /\ \A i \in 1..Len(request.hojas) :
         LET ws == wb[i]
             sheet == request.hojas[i]
             labels == Keys(sheet.column_widths)
             N == Len(labels)
             R == Len(sheet.data)
         IN /\ DOMAIN ws.cells \subseteq (1..(2 + R)) \X (1..N)
            /\ ({<<1, 1>>} \cup ((2..(2 + R)) \X (1..N))) \subseteq DOMAIN ws.cells
            /\ ws.cells[<<1, 1>>] = sheet.title
            /\ \A c \in 1..N : ws.cells[<<2, c>>] = labels[c]
            /\ \A r \in 1..R : \A c \in 1..N :
                 ws.cells[<<2 + r, c>>] =
                   IF labels[c] \in DOMAIN sheet.data[r]
                     THEN sheet.data[r][labels[c]] ELSE ""

\* a record without the sheet's only label and with a label the sheet has not
C8_Witness ==
  /\ EncodedOk
  /\ Len(request.hojas) = 1
  /\ Keys(request.hojas[1].column_widths) = <<"P">>
  /\ Len(request.hojas[1].data) >= 1
  /\ DOMAIN request.hojas[1].data[1] = {"C"}
  /\ wb[1].cells[<<3, 1>>] = ""

ColumnIndex(letter) == CHOOSE i \in DOMAIN ColLetters : ColLetters[i] = letter

\* C9: the auto-filter of an encoded sheet with N columns and R records
\* runs from (row 2, column 1) to (row 2 + R, column N)
C9_AutoFilterRange ==
  EncodedOk =>
    \A i \in 1..Len(request.hojas) :
      LET ref == wb[i].auto_filter
      IN /\ ColumnIndex(ref.start[1]) = 1
         /\ ref.start[2] = 2
         /\ ColumnIndex(ref.end[1]) = Len(request.hojas[i].column_widths)
         /\ ref.end[2] = 2 + Len(request.hojas[i].data)

\* no records: the filter covers the header row only
C9_Witness ==
  /\ EncodedOk
  /\ Len(request.hojas) = 1
  /\ Len(request.hojas[1].column_widths) = 2
  /\ request.hojas[1].data = <<>>
  /\ wb[1].auto_filter = [start |-> <<"A", 2>>, end |-> <<"B", 2>>]

(* requests in flight at once *)
\* the response to a request that is handled alone
Alone(in) ==
  IF in.op = "crear_excel"
    THEN crear_excel(in.hojas).response
    ELSE excel_a_json(in.file).response

\* C10: however concurrent requests interleave, the response to each, an
\* error included, is the response it gets when it is handled alone
C10_RequestIsolation ==
  \A r \in DOMAIN frame : frame[r].pc = "done" => resp[r] = Alone(input[r])

\* a request was answered with its workbook while another, which fails,
\* was in flight
C10_Witness ==
  \E r1, r2 \in DOMAIN frame :
    /\ r1 # r2
    /\ frame[r1].pc = "done"
    /\ input[r1].op = "crear_excel"
    /\ resp[r1].status_code = 200
    /\ frame[r2].pc = "except"

====
